---- MODULE Spec2Model ----
(***************************************************************************)
(* gen-id (src/src/lib.rs): IdGenerator, a 64-bit identifier codec.        *)
(*                                                                         *)
(* An identifier is a u64 packed, least-significant bits first, as         *)
(*   config_id[3] | incrementing_id[10] | shard[shard_bits] |              *)
(*   node[node_bits] | time[epoch_bits].                                   *)
(*                                                                         *)
(* TLC's integers are 32 bits wide, so a u64 is modelled as its four       *)
(* 16-bit limbs <<l1, l2, l3, l4>> (l1 the least significant), and the     *)
(* code's shifts, masks, subtractions and comparisons are carried out on   *)
(* the limbs, with no intermediate value reaching 2^31.                    *)
(***************************************************************************)
EXTENDS Integers, Sequences, FiniteSets, TLC

----------------------------------------------------------------------------
(* u64 arithmetic                                                          *)

\* 2^16: AtomicU16 and u16 wrap here; also the base of the limbs of a u64.
U16Mod == 65536

\* Limb k of a; 0 outside the four limbs.
Limb(a, k) == IF k \in 1..4 THEN a[k] ELSE 0

\* The u64 whose value is the natural number n (n < 2^31).
U64(n) == <<n % U16Mod, n \div U16Mod, 0, 0>>

\* u64::MAX
U64Max == <<U16Mod - 1, U16Mod - 1, U16Mod - 1, U16Mod - 1>>

\* The value of a u64 as a natural number, for values below 2^31.
ToNat(a) == a[1] + U16Mod * a[2]

\* x & y on one limb: bit by bit, but for a limb that is all zeros or all
\* ones.
RECURSIVE And16(_, _)
And16(x, y) ==
    IF x = 0 \/ y = 0 THEN 0
    ELSE IF x = U16Mod - 1 THEN y
    ELSE IF y = U16Mod - 1 THEN x
    ELSE (x % 2) * (y % 2) + 2 * And16(x \div 2, y \div 2)

\* a & b
BitAnd(a, b) ==
    <<And16(a[1], b[1]), And16(a[2], b[2]), And16(a[3], b[3]),
      And16(a[4], b[4])>>

\* x | y on one limb.
Or16(x, y) == x + y - And16(x, y)

\* a | b
BitOr(a, b) ==
    <<Or16(a[1], b[1]), Or16(a[2], b[2]), Or16(a[3], b[3]), Or16(a[4], b[4])>>

\* !a
BitNot(a) ==
    <<U16Mod - 1 - a[1], U16Mod - 1 - a[2], U16Mod - 1 - a[3],
      U16Mod - 1 - a[4]>>

\* Limb k of a << (16 * q + r), r < 16.
ShlLimb(a, q, r, k) ==
    (Limb(a, k - q) % (2 ^ (16 - r))) * (2 ^ r)
    + Limb(a, k - q - 1) \div (2 ^ (16 - r))

\* a << n for 0 <= n < 64 (the bits shifted out at the top are lost).
Shl(a, n) ==
    LET q == n \div 16
        r == n % 16
    IN <<ShlLimb(a, q, r, 1), ShlLimb(a, q, r, 2), ShlLimb(a, q, r, 3),
         ShlLimb(a, q, r, 4)>>

\* Limb k of a >> (16 * q + r), r < 16.
ShrLimb(a, q, r, k) ==
    Limb(a, k + q) \div (2 ^ r)
    + (Limb(a, k + q + 1) % (2 ^ r)) * (2 ^ (16 - r))

\* a >> n for 0 <= n < 64.
Shr(a, n) ==
    LET q == n \div 16
        r == n % 16
    IN <<ShrLimb(a, q, r, 1), ShrLimb(a, q, r, 2), ShrLimb(a, q, r, 3),
         ShrLimb(a, q, r, 4)>>

\* a < b, unsigned.
Lt(a, b) ==
    IF a[4] # b[4] THEN a[4] < b[4]
    ELSE IF a[3] # b[3] THEN a[3] < b[3]
    ELSE IF a[2] # b[2] THEN a[2] < b[2]
    ELSE a[1] < b[1]

\* a - b modulo 2^64 (the borrow ripples from limb 1 up).
WrappingSub(a, b) ==
    LET d1 == a[1] - b[1]
        d2 == a[2] - b[2] - (IF d1 < 0 THEN 1 ELSE 0)
        d3 == a[3] - b[3] - (IF d2 < 0 THEN 1 ELSE 0)
        d4 == a[4] - b[4] - (IF d3 < 0 THEN 1 ELSE 0)
    IN <<(d1 + U16Mod) % U16Mod, (d2 + U16Mod) % U16Mod,
         (d3 + U16Mod) % U16Mod, (d4 + U16Mod) % U16Mod>>

\* a + b modulo 2^64 (the carry ripples from limb 1 up).
WrappingAdd(a, b) ==
    LET s1 == a[1] + b[1]
        s2 == a[2] + b[2] + s1 \div U16Mod
        s3 == a[3] + b[3] + s2 \div U16Mod
        s4 == a[4] + b[4] + s3 \div U16Mod
    IN <<s1 % U16Mod, s2 % U16Mod, s3 % U16Mod, s4 % U16Mod>>

\* (1 << n) - 1 on u64, for each n below 64 (element n + 1).
LowMasks == [i \in 1..64 |-> WrappingSub(Shl(U64(1), i - 1), U64(1))]

\* (1 << n) - 1 on u64: the mask of the n low bits.
LowMask(n) == LowMasks[n + 1]

----------------------------------------------------------------------------
(* Configuration                                                           *)

\* pub const DEFAULT_EPOCH: u64 = 1609459200000
\* (1609459200000 = 1534899 * 2^20 + 946176; each half fits a TLC integer).
DEFAULT_EPOCH == BitOr(Shl(U64(1534899), 20), U64(946176))

\* ConfigPreset values: the two named presets and Custom(epoch, epoch_bits,
\* node_bits, shard_bits, config_id).
ShortEpochMaxNodes == [kind |-> "ShortEpochMaxNodes"]
ShardedConfig == [kind |-> "ShardedConfig"]
Custom(e, eb, nb, sb, cid) ==
    [kind |-> "Custom", epoch |-> e, epoch_bits |-> eb, node_bits |-> nb,
     shard_bits |-> sb, config_id |-> cid]

\* (1 << node_bits) as u16: the literal 1 is an i32, the cast keeps the low
\* 16 bits (node_bits is below 31 in every configuration used here).
MaxNodesOf(node_bits) == (2 ^ node_bits) % U16Mod

\* IdGenerator::new(preset, epoch): the fields of the generator, apart from
\* the counter next_id, which starts at 0 (see Init).  A Custom preset
\* carries its own epoch, which shadows the epoch argument.
New(preset, epoch) ==
    CASE preset.kind = "ShortEpochMaxNodes" ->
           [kind |-> preset.kind, epoch |-> epoch, epoch_bits |-> 37,
            node_bits |-> 14, shard_bits |-> 0, max_nodes |-> 16384,
            config_id |-> 3]
      [] preset.kind = "ShardedConfig" ->
           [kind |-> preset.kind, epoch |-> epoch, epoch_bits |-> 32,
            node_bits |-> 14, shard_bits |-> 5, max_nodes |-> 16384,
            config_id |-> 1]
      [] preset.kind = "Custom" ->
           [kind |-> preset.kind, epoch |-> preset.epoch,
            epoch_bits |-> preset.epoch_bits, node_bits |-> preset.node_bits,
            shard_bits |-> preset.shard_bits,
            max_nodes |-> MaxNodesOf(preset.node_bits),
            config_id |-> preset.config_id]

----------------------------------------------------------------------------
(* Codec                                                                   *)

\* The low n bits of a u64 as a number, n <= 16: the casts `as u8` (n = 8)
\* and `as u16` (n = 16).
Truncate(a, n) == a[1] % (2 ^ n)

Panic(msg) == [ok |-> FALSE, err |-> msg]
Returns(id) == [ok |-> TRUE, id |-> id]

\* Option<u64>
None == [some |-> FALSE]
Some(v) == [some |-> TRUE, val |-> v]

\* A subtraction that wraps instead of failing (checked_sub replaced by
\* wrapping_sub).
CheckedSubWraps(a, b) == Some(WrappingSub(a, b))

\* u64::checked_sub
CheckedSub(a, b) == IF Lt(a, b) THEN None ELSE Some(WrappingSub(a, b))

\* derive_sharded_id without clearing the shard window of the original.
DeriveShardedIdNoClear(g, original_id, shard) ==
    IF g.shard_bits = 0
    THEN Panic("This configuration doesn't support sharding")
    ELSE IF ~Lt(U64(shard), Shl(U64(1), g.shard_bits))
    THEN Panic("Shard number exceeds maximum")
    ELSE Returns(BitOr(original_id,
                       Shl(BitAnd(U64(shard), LowMask(g.shard_bits)), 13)))

\* derive_sharded_id with the range check off by one (> for >=).
DeriveShardedIdOffByOne(g, original_id, shard) ==
    IF g.shard_bits = 0
    THEN Panic("This configuration doesn't support sharding")
    ELSE IF Lt(Shl(U64(1), g.shard_bits), U64(shard))
    THEN Panic("Shard number exceeds maximum")
    ELSE LET shard_mask == Shl(LowMask(g.shard_bits), 13)
             base_id == BitAnd(original_id, BitNot(shard_mask))
             shard_part == Shl(BitAnd(U64(shard), LowMask(g.shard_bits)), 13)
         IN Returns(BitOr(base_id, shard_part))

\* IdGenerator::derive_sharded_id(original_id: u64, shard: u16)
DeriveShardedId(g, original_id, shard) ==
    IF g.shard_bits = 0
    THEN Panic("This configuration doesn't support sharding")
    ELSE IF ~Lt(U64(shard), Shl(U64(1), g.shard_bits))
    THEN Panic("Shard number exceeds maximum")
    ELSE LET shard_shift == 13
             shard_width == g.shard_bits
             shard_mask == Shl(LowMask(shard_width), shard_shift)
             base_id == BitAnd(original_id, BitNot(shard_mask))
             shard_part ==
                 Shl(BitAnd(U64(shard), LowMask(shard_width)), shard_shift)
         IN Returns(BitOr(base_id, shard_part))

\* decode_id reading the node right after the sequence, as if there were no
\* shard window.
DecodeIdNoShard(g, id) ==
    [time |-> BitAnd(Shr(id, 3 + 10 + g.node_bits), LowMask(g.epoch_bits)),
     node_id |-> BitAnd(Shr(id, 3 + 10), LowMask(g.node_bits)),
     shard_id |-> 0,
     incrementing_id |-> BitAnd(Shr(id, 3), LowMask(10)),
     config_id |-> Truncate(BitAnd(id, U64(7)), 8)]

\* IdGenerator::decode_id(id: u64) -> DecodedId.  time, node_id and
\* incrementing_id are u64, shard_id is a u16 and config_id a u8.
DecodeId(g, id) ==
    LET config_id == Truncate(BitAnd(id, U64(7)), 8)
        incrementing_id == BitAnd(Shr(id, 3), LowMask(10))
        shard_id == IF g.shard_bits > 0
                    THEN Truncate(BitAnd(Shr(id, 3 + 10),
                                         LowMask(g.shard_bits)), 16)
                    ELSE 0
        node_shift == 3 + 10 + g.shard_bits
        node_id == BitAnd(Shr(id, node_shift), LowMask(g.node_bits))
        time_shift == node_shift + g.node_bits
        time == BitAnd(Shr(id, time_shift), LowMask(g.epoch_bits))
    IN [time |-> time, node_id |-> node_id, shard_id |-> shard_id,
        incrementing_id |-> incrementing_id, config_id |-> config_id]

\* generate_id with the sequence left unshifted, over the configuration
\* bits (`<< 3` forgotten).
GenerateIdUnshifted(g, node_id, incrementing_id, millis) ==
    LET time_since_epoch == CheckedSub(millis, g.epoch)
    IN IF ~time_since_epoch.some
       THEN Panic("Time went backwards")
       ELSE LET config_part == BitAnd(U64(g.config_id), U64(7))
                inc_part == BitAnd(U64(incrementing_id), LowMask(10))
                node_shift == 3 + 10 + g.shard_bits
                node_part ==
                    Shl(BitAnd(U64(node_id), LowMask(g.node_bits)), node_shift)
                time_part ==
                    Shl(BitAnd(time_since_epoch.val, LowMask(g.epoch_bits)),
                        node_shift + g.node_bits)
            IN Returns(BitOr(BitOr(BitOr(time_part, node_part), inc_part),
                             config_part))

\* IdGenerator::generate_id(node_id: u16, incrementing_id: u16), with the
\* clock reading millis (SystemTime::now() in milliseconds, as u64) made an
\* argument.
GenerateId(g, node_id, incrementing_id, millis) ==
    LET time_since_epoch == CheckedSub(millis, g.epoch)
    IN IF ~time_since_epoch.some
       THEN Panic("Time went backwards")
       ELSE LET config_part == BitAnd(U64(g.config_id), U64(7))
                inc_part == Shl(BitAnd(U64(incrementing_id), LowMask(10)), 3)
                shard_shift == 3 + 10
                node_shift == shard_shift + g.shard_bits
                node_part ==
                    Shl(BitAnd(U64(node_id), LowMask(g.node_bits)), node_shift)
                time_shift == node_shift + g.node_bits
                time_part ==
                    Shl(BitAnd(time_since_epoch.val, LowMask(g.epoch_bits)),
                        time_shift)
            IN Returns(BitOr(BitOr(BitOr(time_part, node_part), inc_part),
                             config_part))

\* Variants of fetch_add's effect on the counter: an increment that is lost,
\* one that counts twice, one that counts down, one that wraps a step early.
FetchAddLost(c) == c
FetchAddTwice(c) == (c + 2) % U16Mod
FetchAddDown(c) == (c + U16Mod - 1) % U16Mod
FetchAddWrapsEarly(c) == (c + 1) % (U16Mod - 1)

\* AtomicU16::fetch_add(1, SeqCst): the counter after the call (wrapping at
\* 2^16); the call returns the counter before it.
FetchAddNew(c) == (c + 1) % U16Mod

\* old & ((1 << 10) - 1) on u16: the low 10 bits of the value fetch_add
\* returned.
IncrementingIdOf(old) == old % (2 ^ 10)

----------------------------------------------------------------------------
(* State                                                                   *)

VARIABLES
    gen,       \* the generator's immutable fields (IdGenerator but next_id)
    next_id,   \* IdGenerator.next_id, the AtomicU16 counter
    calls,     \* history: how many fetch_add calls were made on next_id
    inflight,  \* the next_id() calls between fetch_add and generate_id,
               \* one per thread inside next_id(), with the thread's locals
    log,       \* history: the next_id() calls that ended, each with what
               \* it returned and what decode_id makes of that
    sh         \* an identifier under derive_sharded_id, and the last call

vars == <<gen, next_id, calls, inflight, log, sh>>

\* Threads sharing the generator.
Threads == {1, 2}

\* Bound: next_id() calls that are followed one by one.
MaxCalls == 3

\* Calls made (and not followed) before the followed ones, so that the
\* followed calls meet the 10-bit wrap and the 16-bit overflow.
Warmups == {1023, U16Mod - 1}

\* Generators of the minting specification: the two presets with the
\* default epoch, and the preset and epoch of
\* tests::test_time_travel_resilience.
MintGenerators ==
    {New(ShortEpochMaxNodes, DEFAULT_EPOCH),
     New(ShardedConfig, DEFAULT_EPOCH),
     New(ShortEpochMaxNodes, U64Max)}

\* Generators of the sharding specification: the presets, and Custom
\* configurations of every node width of a u16 node identifier, the time
\* field taking the bits that are left of the 64.
ShardWidths == {0, 2, 5}
NodeWidths == 0..16
ShardGenerators ==
    {New(ShortEpochMaxNodes, DEFAULT_EPOCH), New(ShardedConfig, DEFAULT_EPOCH)}
    \cup {New(Custom(DEFAULT_EPOCH, 64 - 13 - nb - sb, nb, sb, 1), DEFAULT_EPOCH) :
            nb \in NodeWidths, sb \in ShardWidths}

\* Node identifiers passed to next_id: the ends of 0..max_nodes-1.
Nodes(g) == {0, g.max_nodes - 1}

\* Clock readings: one millisecond before the epoch, the epoch, one
\* millisecond after it, and the first millisecond whose distance from the
\* epoch no longer fits epoch_bits (those that exist in a u64).
Clocks(g) ==
    {WrappingSub(g.epoch, U64(1)) : x \in {y \in {0} : g.epoch # U64(0)}}
    \cup {c \in {WrappingAdd(g.epoch, off) :
                   off \in {U64(0), U64(1), Shl(U64(1), g.epoch_bits)}} :
            ~Lt(c, g.epoch)}

\* Shard arguments (u16).
Shards == {0, 1, 3, 4, 31, 32, U16Mod - 1}

\* Identifiers handed to derive_sharded_id: all bits clear, all bits set,
\* and one minted by generate_id.
SampleIds(g) ==
    {U64(0), U64Max,
     GenerateId(g, g.max_nodes - 1, 1023, WrappingAdd(g.epoch, U64(5))).id}

NoCall == [shard |-> 0, res |-> Panic("no call yet")]

NoDerive == [orig |-> U64(0), cur |-> U64(0), derived |-> 0, shard |-> 0,
             last |-> NoCall]

\* The counter after n fetch_add calls.
RECURSIVE CounterAfter(_, _)
CounterAfter(c, n) ==
    IF n = 0 THEN c
    ELSE IF n % 2 = 1 THEN FetchAddNew(CounterAfter(c, n - 1))
    ELSE LET half == CounterAfter(c, n \div 2)
         IN IF half >= 0 THEN CounterAfter(half, n \div 2) ELSE half

----------------------------------------------------------------------------
(* Minting: next_id                                                        *)

\* IdGenerator::new: the counter starts at 0 and no call was made.
Init ==
    /\ gen \in MintGenerators
    /\ next_id = 0
    /\ calls = 0
    /\ inflight = {}
    /\ log = {}
    /\ sh = NoDerive

\* n calls of next_id before the followed ones: each is a fetch_add on the
\* counter; their identifiers are not followed.
Warmup(n) ==
    /\ calls = 0
    /\ next_id' = CounterAfter(next_id, n)
    /\ calls' = n
    /\ UNCHANGED <<gen, inflight, log, sh>>

\* next_id, first half: a thread enters next_id(node_id) and does
\*   let incrementing_id = self.next_id.fetch_add(1, SeqCst) & ((1 << 10) - 1)
\* in one atomic step.  ticket counts the calls that entered before this
\* one; alone says that no other call was inside next_id at any time during
\* this one.
FetchAdd(node_id) ==
    /\ Cardinality(inflight) < Cardinality(Threads)
    /\ Cardinality(log) + Cardinality(inflight) < MaxCalls
    /\ next_id' = FetchAddNew(next_id)
    /\ calls' = calls + 1
    /\ inflight' =
         {[c EXCEPT !.alone = FALSE] : c \in inflight}
         \cup {[node_id |-> node_id,
                incrementing_id |-> IncrementingIdOf(next_id),
                ticket |-> calls, alone |-> inflight = {}]}
    /\ UNCHANGED <<gen, log, sh>>

\* What call c of next_id returns when generate_id reads the clock millis.
NextIdResult(c, millis) ==
    GenerateId(gen, c.node_id, c.incrementing_id, millis)

\* History: what decode_id makes of the identifier a call returned.
DecodedResult(res) == IF res.ok THEN DecodeId(gen, res.id) ELSE <<>>

\* next_id, second half: the thread of call c runs generate_id, which reads
\* the clock (millis) and returns the identifier or panics; a panic unwinds
\* that thread and leaves the generator to the others.  The log keeps the
\* call, what it returned and what decode_id makes of the identifier.
Generate(c, millis) ==
    LET res == NextIdResult(c, millis)
    IN /\ c \in inflight
       /\ inflight' = inflight \ {c}
       /\ log' = log \cup
            {[node_id |-> c.node_id, incrementing_id |-> c.incrementing_id,
              ticket |-> c.ticket, alone |-> c.alone, millis |-> millis,
              res |-> res, decoded |-> DecodedResult(res)]}
       /\ UNCHANGED <<gen, next_id, calls, sh>>

Next ==
    \/ \E n \in Warmups : Warmup(n)
    \/ \E node_id \in Nodes(gen) : FetchAdd(node_id)
    \/ \E c \in inflight : \E millis \in Clocks(gen) : Generate(c, millis)

Spec == Init /\ [][Next]_vars

----------------------------------------------------------------------------
(* Construction and derive_sharded_id                                      *)

ShardInit ==
    /\ gen \in ShardGenerators
    /\ next_id = 0
    /\ calls = 0
    /\ inflight = {}
    /\ log = {}
    /\ \E id \in SampleIds(gen) :
         sh = [NoDerive EXCEPT !.orig = id, !.cur = id]

\* derive_sharded_id(sh.cur, shard); the caller keeps the identifier
\* returned and derives from it next.  derived counts the calls that
\* returned (up to 2), shard is the argument of the last of them.
Derive(shard) ==
    LET res == DeriveShardedId(gen, sh.cur, shard)
    IN /\ sh' = [orig |-> sh.orig,
                 cur |-> IF res.ok THEN res.id ELSE sh.cur,
                 derived |-> IF res.ok /\ sh.derived < 2
                             THEN sh.derived + 1 ELSE sh.derived,
                 shard |-> IF res.ok THEN shard ELSE sh.shard,
                 last |-> [shard |-> shard, res |-> res]]
       /\ UNCHANGED <<gen, next_id, calls, inflight, log>>

ShardNext == \E shard \in Shards : Derive(shard)

ShardSpec == ShardInit /\ [][ShardNext]_vars

----------------------------------------------------------------------------
(* Properties of next_id (specification Spec)                              *)

Succeeded == {e \in log : e.res.ok}

\* decode_id of the identifier call e returned.
Decoded(e) == e.decoded

\* The 10-bit sequence does not wrap between the calls a and b: the same
\* number of whole rounds of 1024 calls came before each.
NoWrapBetween(a, b) == a.ticket \div 1024 = b.ticket \div 1024

\* Call b is the call after a, and neither overlapped any other call.
NextInSequence(a, b) == b.ticket = a.ticket + 1 /\ a.alone /\ b.alone

\* The time since the epoch, read by call e, fits the time field.
FitsTimeField(e) ==
    Lt(WrappingSub(e.millis, gen.epoch), Shl(U64(1), gen.epoch_bits))

\* C1: under a preset, decode_id of the identifier next_id(node_id)
\* returned, node_id below max_nodes, gives back node_id and the
\* configuration's config_id.
C1_DecodeReturnsNodeAndConfig ==
    \A e \in Succeeded :
        (/\ gen.kind \in {"ShortEpochMaxNodes", "ShardedConfig"}
         /\ e.node_id < gen.max_nodes)
        => LET d == Decoded(e)
           IN d.node_id = U64(e.node_id) /\ d.config_id = gen.config_id

C1_Witness ==
    \E e \in Succeeded :
        /\ gen.kind = "ShardedConfig"
        /\ e.node_id = gen.max_nodes - 1
        /\ e.incrementing_id = 1023
        /\ e.millis = WrappingAdd(gen.epoch, U64(1))

\* C4: a call that reads a clock before the epoch panics ("Time went
\* backwards") and returns no identifier; a call that reads a clock at or
\* after the epoch returns one, with time field 0 when the clock is the
\* epoch.
C4_ClockBeforeEpochPanics ==
    \A e \in log :
        /\ Lt(e.millis, gen.epoch) => e.res = Panic("Time went backwards")
        /\ ~Lt(e.millis, gen.epoch) => e.res.ok
        /\ e.millis = gen.epoch => Decoded(e).time = U64(0)

C4_Witness ==
    \E a, b \in log :
        /\ Lt(a.millis, gen.epoch) /\ ~a.res.ok
        /\ b.millis = gen.epoch /\ b.res.ok
        /\ gen.epoch = U64Max

\* C5 as claimed: of two successive calls for one node, made one after the
\* other, the clock not moving backward and the sequence not wrapping
\* between them, the second returns the greater identifier.
C5_Original ==
    \A a, b \in Succeeded :
        (/\ NextInSequence(a, b)
         /\ a.node_id = b.node_id
         /\ ~Lt(b.millis, a.millis)
         /\ NoWrapBetween(a, b))
        => Lt(a.res.id, b.res.id)

\* C5 as amended: the same, as long as the time since the epoch still fits
\* the time field (epoch_bits bits) at both calls.
C5_IncreasingWhileTimeFits ==
    \A a, b \in Succeeded :
        (/\ NextInSequence(a, b)
         /\ a.node_id = b.node_id
         /\ ~Lt(b.millis, a.millis)
         /\ NoWrapBetween(a, b)
         /\ FitsTimeField(a) /\ FitsTimeField(b))
        => Lt(a.res.id, b.res.id)

C5_Witness ==
    \E a, b \in Succeeded :
        /\ NextInSequence(a, b)
        /\ a.node_id = b.node_id
        /\ Lt(a.millis, b.millis)
        /\ NoWrapBetween(a, b)
        /\ FitsTimeField(a) /\ FitsTimeField(b)
        /\ Lt(a.res.id, b.res.id)

\* C6 as claimed: of two calls for one node that read the same millisecond,
\* made one after the other and fewer than 1024 calls apart, the later
\* returns the greater identifier, whatever the counter was before them.
C6_Original ==
    \A a, b \in Succeeded :
        (/\ a.ticket < b.ticket
         /\ b.ticket - a.ticket < 1024
         /\ a.alone /\ b.alone
         /\ a.node_id = b.node_id
         /\ a.millis = b.millis)
        => Lt(a.res.id, b.res.id)

\* C6 as amended: of two calls for one node that read the same millisecond,
\* the one that entered next_id later returns the greater identifier as
\* long as the counter does not pass a multiple of 1024 between the two
\* (the sequence is not reset when a millisecond begins).
C6_IncreasingUntilWrap ==
    \A a, b \in Succeeded :
        (/\ a.ticket < b.ticket
         /\ a.node_id = b.node_id
         /\ a.millis = b.millis
         /\ NoWrapBetween(a, b))
        => Lt(a.res.id, b.res.id)

C6_Witness ==
    \E a, b, c \in Succeeded :
        /\ a.node_id = b.node_id
        /\ c.node_id # a.node_id
        /\ a.millis = b.millis
        /\ a.ticket < c.ticket /\ c.ticket < b.ticket
        /\ NoWrapBetween(a, b)
        /\ Lt(a.res.id, b.res.id)

\* Every call that entered next_id, ended or not: its ticket and the
\* sequence value it took.
Taken ==
    {<<c.ticket, c.incrementing_id>> : c \in inflight}
    \cup {<<e.ticket, e.incrementing_id>> : e \in log}

\* C7: under every interleaving the counter has advanced by one per call,
\* two calls fewer than 1024 increments apart hold different sequence
\* values, and those that returned did not return the same (time,
\* sequence) pair nor the same identifier.
C7_NoDuplicateWithin1024 ==
    /\ next_id = calls % U16Mod
    /\ \A x, y \in Taken :
         (x[1] < y[1] /\ y[1] - x[1] < 1024) => x[2] # y[2]
    /\ \A a, b \in Succeeded :
         (a.ticket < b.ticket /\ b.ticket - a.ticket < 1024)
         => /\ a.res.id # b.res.id
            /\ LET da == Decoded(a)
                   db == Decoded(b)
               IN <<da.time, da.incrementing_id>>
                  # <<db.time, db.incrementing_id>>

C7_Witness ==
    \E a, b \in Succeeded :
        /\ ~a.alone /\ ~b.alone
        /\ b.ticket = a.ticket + 1
        /\ a.millis = b.millis
        /\ a.node_id = b.node_id
        /\ a.res.id # b.res.id

\* The calls that returned an identifier before call e entered, those made
\* before the followed calls included.
SucceededBefore(e) ==
    (calls - Cardinality(log) - Cardinality(inflight))
    + Cardinality({f \in Succeeded : f.ticket < e.ticket})

\* C8 as claimed: with the calls made one after the other, the k-th call
\* that returns an identifier (k from 0) returns one whose sequence decodes
\* to k mod 1024.
C8_Original ==
    (inflight = {} /\ \A f \in log : f.alone)
    => \A e \in Succeeded :
         Decoded(e).incrementing_id = U64(SucceededBefore(e) % 1024)

\* C8 as amended: the counter starts at 0, and the call that k calls of
\* next_id preceded, panicked ones included, returns an identifier whose
\* sequence decodes to k mod 1024.
C8_SequenceIsCallCountMod1024 ==
    /\ calls = 0 => next_id = 0
    /\ \A e \in Succeeded :
         Decoded(e).incrementing_id = U64(e.ticket % 1024)

C8_Witness ==
    \E a, b \in Succeeded :
        /\ a.ticket = U16Mod - 1
        /\ Decoded(a).incrementing_id = U64(1023)
        /\ b.ticket = U16Mod
        /\ Decoded(b).incrementing_id = U64(0)

\* C10 as claimed: a call that panics on the clock leaves the counter as it
\* was, so the call after it takes the sequence value the panicked call had.
C10_Original ==
    \A a, b \in log :
        (~a.res.ok /\ b.res.ok /\ NextInSequence(a, b))
        => b.incrementing_id = a.incrementing_id

\* C10 as amended: next_id advances the counter before it reads the clock,
\* so a call that panics on the clock has used up its sequence value and
\* the call after it takes the following one.
C10_PanickedCallUsesSequence ==
    \A a, b \in log :
        (~a.res.ok /\ b.res.ok /\ NextInSequence(a, b))
        => b.incrementing_id = (a.incrementing_id + 1) % 1024

C10_Witness ==
    \E a, b \in log :
        /\ ~a.res.ok /\ b.res.ok /\ NextInSequence(a, b)
        /\ a.incrementing_id = 1023 /\ b.incrementing_id = 0

----------------------------------------------------------------------------
(* Properties of new and derive_sharded_id (specification ShardSpec)       *)

\* The bits of the shard window: width shard_bits, from bit 13 up.
ShardWindow == Shl(LowMask(gen.shard_bits), 13)

\* C2: after one or more derive_sharded_id calls that returned, the
\* identifier decodes to the shard of the last of them and to the time,
\* node, sequence and configuration of the original, and differs from the
\* original inside the shard window only.
C2_DeriveRewritesOnlyShard ==
    sh.derived > 0 =>
        /\ Lt(U64(sh.shard), Shl(U64(1), gen.shard_bits))
        /\ DecodeId(gen, sh.cur).shard_id = sh.shard
        /\ DecodeId(gen, sh.cur).time = DecodeId(gen, sh.orig).time
        /\ DecodeId(gen, sh.cur).node_id = DecodeId(gen, sh.orig).node_id
        /\ DecodeId(gen, sh.cur).incrementing_id
           = DecodeId(gen, sh.orig).incrementing_id
        /\ DecodeId(gen, sh.cur).config_id = DecodeId(gen, sh.orig).config_id
        /\ BitAnd(sh.cur, BitNot(ShardWindow))
           = BitAnd(sh.orig, BitNot(ShardWindow))

C2_Witness ==
    /\ sh.derived = 2
    /\ gen.kind = "ShardedConfig"
    /\ sh.orig = U64Max
    /\ sh.shard = 0
    /\ sh.cur # sh.orig

\* C3: derive_sharded_id panics with the sharding-unsupported message when
\* shard_bits is 0, with the shard-exceeds-maximum message when shard_bits
\* is positive and the shard is 2^shard_bits or more, and returns an
\* identifier in every other case.
C3_DeriveFailures ==
    sh.last # NoCall =>
        /\ gen.shard_bits = 0
           => sh.last.res = Panic("This configuration doesn't support sharding")
        /\ (gen.shard_bits > 0 /\ sh.last.shard >= 2 ^ gen.shard_bits)
           => sh.last.res = Panic("Shard number exceeds maximum")
        /\ (gen.shard_bits > 0 /\ sh.last.shard < 2 ^ gen.shard_bits)
           => sh.last.res.ok

C3_Witness ==
    /\ gen.shard_bits > 0
    /\ sh.last.shard = 2 ^ gen.shard_bits
    /\ sh.last.res = Panic("Shard number exceeds maximum")
    /\ sh.derived > 0

\* C9 as claimed: a Custom generator has max_nodes = 2^node_bits for every
\* node_bits from 0 to 16, and the presets have max_nodes = 16384.
C9_MaxNodesIsPowerOfTwo ==
    /\ gen.kind = "Custom" => gen.max_nodes = 2 ^ gen.node_bits
    /\ gen.kind # "Custom" => gen.max_nodes = 16384

====
